---- MODULE Spec2Model ----
(***************************************************************************)
(* Model of daily_update.py: the SLAM repository digest.  One run of main  *)
(* loads the ledger of processed repositories, pages through the search    *)
(* API, filters, fetches and parses each new repository, sorts the         *)
(* generated rows, splices them into README.md and saves the ledger.       *)
(*                                                                         *)
(* Text is modelled as a sequence of tokens.  "NL" is a newline, "##" the  *)
(* three characters "## ", "Hd" the first line of TABLE_HEADER, "Sep" its  *)
(* second (separator) line; any other token is a run of ordinary text that *)
(* contains no newline, no "## " and no part of the header.                *)
(*                                                                         *)
(* Specifications: Spec (runs of main, any answers), SpecWide (one run,    *)
(* more repositories than the loop's limit), SpecFixed (runs repeated in a *)
(* fixed world, with fairness), SpecSearch (search_slam_repos alone, with  *)
(* fairness), SpecTable (update_readme_table alone) and SpecParse (the     *)
(* venue field of parse_readme alone).                                     *)
(***************************************************************************)
EXTENDS Integers, Sequences, FiniteSets, TLC

VARIABLES
    docFile,                \* README.md: [exists, content]
    ledgerFile,             \* processed_repos.txt: [exists, content]
    pc,                     \* position in main: idle, search, filter, process, render, persist
    run,                    \* number of runs of main started
    exit,                   \* how the last run of main ended
    processed_repos,        \* main: list loaded from the ledger
    page,                   \* search_slam_repos: page counter
    all_repos,              \* search_slam_repos: accumulated items
    new_repos,              \* main: filtered list
    idx,                    \* main: index of the process loop (0-based)
    table_rows,             \* main: generated rows
    processed_in_this_run,  \* main: names of the repositories that got a row
    loadResult,             \* outcome of load_processed_repos in this run
    renderResult,           \* outcome of update_readme_table in this run
    saveResult,             \* outcome of save_processed_repos in this run
    docBefore,              \* README.md as it was when update_readme_table was called
    rowsArg,                \* the rows passed to update_readme_table
    ledgerAtStart,          \* processed_repos.txt as it was when the run began
    recordedEarlier,        \* names recorded in the ledger file by earlier runs
    fetched,                \* names for which a detail fetch was made in this run
    got403,                 \* some API request of this run was answered 403
    actedAfter403,          \* a repository was processed or a file written after a 403
    docAtStart,             \* README.md as it was when the run began
    generated,              \* the rows of this run in the order they were generated
    requested,              \* search_slam_repos: the items of each page requested, in order
    env,                    \* the world outside: what the API and the file system may answer
    confMatch,              \* parse_readme: what re.search finds for the venue section
    repo_info,              \* parse_readme: the repository summary, with its description
    result                  \* parse_readme: result["conf"]

vars == <<docFile, ledgerFile, pc, run, exit, processed_repos, page, all_repos,
          new_repos, idx, table_rows, processed_in_this_run, loadResult,
          renderResult, saveResult, docBefore, rowsArg, ledgerAtStart,
          recordedEarlier, fetched, got403, actedAfter403, docAtStart,
          generated, requested, env, confMatch, repo_info, result>>

\* the variables of a call of parse_readme
parseVars == <<confMatch, repo_info, result>>

-----------------------------------------------------------------------------
(* Bounds of the model *)

NumRepos == 2           \* repositories the search API can return
MaxPages == 2           \* pages after which the search API runs out of results
MaxRuns == 2            \* runs of main in one behaviour
MaxDocLen == 6          \* tokens of an arbitrary prior README.md
PER_PAGE == 2           \* per_page of the search request, scaled down from 100
PROCESS_LIMIT == 2      \* the slice new_repos[:50], scaled down from 50
NumWide == 3            \* repositories of the one-run specification
MaxChunks == 3          \* pieces of text a repository description is put together from

-----------------------------------------------------------------------------
(* Configuration *)

SKIP_EXISTED == TRUE
TABLE_HEADER == <<"Hd", "NL", "Sep">>
NEW_DOC_PREFIX == <<"Title", "NL", "NL", "##", "Latest", "NL">>

AllNames == <<"o/a", "o/b", "o/c", "o/d">>
Repos == {AllNames[i] : i \in 1..NumRepos}
WideRepos == {AllNames[i] : i \in 1..NumWide}
Rank(name) == CHOOSE i \in 1..Len(AllNames) : AllNames[i] = name

-----------------------------------------------------------------------------
(* Strings *)

SeqsUpTo(S, n) == UNION {[1..k -> S] : k \in 0..n}

Range(s) == {s[i] : i \in 1..Len(s)}

RECURSIVE Find(_, _, _)
\* str.find(pat, start): the 0-based index of the first occurrence at or after start, or -1
Find(content, pat, start) ==
    IF start + Len(pat) > Len(content) THEN -1
    ELSE IF SubSeq(content, start + 1, start + Len(pat)) = pat THEN start
    ELSE Find(content, pat, start + 1)

RECURSIVE Join(_, _)
\* sep.join(parts)
Join(parts, sep) ==
    IF parts = <<>> THEN <<>>
    ELSE IF Len(parts) = 1 THEN parts[1]
    ELSE parts[1] \o sep \o Join(Tail(parts), sep)

Slice(s, from, to) == SubSeq(s, from + 1, to)    \* s[from:to]

-----------------------------------------------------------------------------
(* Files *)

NoFile == [exists |-> FALSE, content |-> <<>>]
File(content) == [exists |-> TRUE, content |-> content]

\* what a write that fails after open(path, "w") truncated the file can leave behind
Truncations(content) == {SubSeq(content, 1, k) : k \in 0..(Len(content) - 1)}

-----------------------------------------------------------------------------
(* The world outside the script: the GitHub API and the file system.  env   *)
(* never changes in a behaviour.  A free world answers every request in any *)
(* way the code can meet; a fixed world answers by a script and never fails.*)

\* any answer: rate limits and file errors included
FreeEnv(repos, maxRuns, maxPages, titles) ==
    [repos |-> repos, maxRuns |-> maxRuns, maxPages |-> maxPages, titles |-> titles,
     faults |-> TRUE, fixed |-> FALSE, pages |-> <<>>, outcome |-> <<>>]

\* the same discovery result and the same answer for each repository in every run;
\* no request is answered 403 and no file operation fails
FixedEnv(repos, maxRuns, pages, outcome) ==
    [repos |-> repos, maxRuns |-> maxRuns, maxPages |-> Len(pages) + 1, titles |-> {"title"},
     faults |-> FALSE, fixed |-> TRUE, pages |-> pages, outcome |-> outcome]

-----------------------------------------------------------------------------
(* update_readme_table *)

\* a splice that forgets the content after the table region
SpliceTableDropTail(content, rows, start_idx, end_idx) ==
    Slice(content, 0, start_idx) \o TABLE_HEADER \o <<"NL">> \o Join(rows, <<"NL">>)

\* content[:start_idx] + TABLE_HEADER + "\n" + "\n".join(rows) + content[end_idx:]
SpliceTable(content, rows, start_idx, end_idx) ==
    Slice(content, 0, start_idx) \o TABLE_HEADER \o <<"NL">>
        \o Join(rows, <<"NL">>) \o Slice(content, end_idx, Len(content))

\* a boundary search that starts at the top of the document
EndOfTableFromTop(content, start_idx) ==
    LET end_idx == Find(content, <<"NL", "##">>, 0)
    IN  IF end_idx = -1 THEN Len(content) ELSE end_idx

EndOfTable(content, start_idx) ==
    LET end_idx == Find(content, <<"NL", "##">>, start_idx)
    IN  IF end_idx = -1 THEN Len(content) ELSE end_idx

\* an update that puts the new rows after the rows already in the table
NewContentKeepRows(content, rows) ==
    LET start_idx == Find(content, TABLE_HEADER, 0)
        end_idx == EndOfTable(content, start_idx)
    IN  IF start_idx = -1
        THEN NEW_DOC_PREFIX \o TABLE_HEADER \o <<"NL">> \o Join(rows, <<"NL">>)
        ELSE Slice(content, 0, end_idx) \o <<"NL">> \o Join(rows, <<"NL">>)
                 \o Slice(content, end_idx, Len(content))

\* the content update_readme_table computes from the content it read
NewContent(content, rows) ==
    LET start_idx == Find(content, TABLE_HEADER, 0)
    IN  IF start_idx = -1
        THEN NEW_DOC_PREFIX \o TABLE_HEADER \o <<"NL">> \o Join(rows, <<"NL">>)
        ELSE SpliceTable(content, rows, start_idx, EndOfTable(content, start_idx))

\* update_readme_table(rows): reads README.md if it exists, rewrites it whole.
\* An exception anywhere is caught and makes the call return False.
UpdateReadmeTable(rows) ==
    /\ docBefore' = docFile
    /\ rowsArg' = rows
    /\ \/ /\ env.faults
          /\ docFile.exists                       \* open/read raises
          /\ docFile' = docFile
          /\ renderResult' = "failed"
       \/ /\ env.faults
          /\ docFile' = docFile                    \* open(.., "w") raises
          /\ renderResult' = "failed"
       \/ /\ env.faults
          /\ \E part \in Truncations(NewContent(docFile.content, rows)) :
                docFile' = File(part)               \* f.write or close raises
          /\ renderResult' = "failed"
       \/ /\ docFile' = File(NewContent(docFile.content, rows))
          /\ renderResult' = "ok"

-----------------------------------------------------------------------------
(* A specification of update_readme_table alone: one call on an arbitrary   *)
(* prior README.md with an arbitrary list of rows.                          *)

DocTokens == {"Hd", "Sep", "NL", "##", "x"}
\* rows: plain ones, one of several lines, and one whose text holds the header
RowLists == { <<>>,
              << <<"a">> >>,
              << <<"a">>, <<"b">> >>,
              << <<"b">>, <<"a">> >>,
              << <<"a", "NL", "b">> >>,
              << <<"a">>, <<"b">> \o TABLE_HEADER >> }

mainVars == <<ledgerFile, run, exit, processed_repos, page, all_repos, new_repos,
              idx, table_rows, processed_in_this_run, loadResult, saveResult,
              ledgerAtStart, recordedEarlier, fetched, got403, actedAfter403,
              docAtStart, generated, requested, env>>

InitLocals ==
    /\ run = 0
    /\ exit = "none"
    /\ processed_repos = <<>>
    /\ page = 1
    /\ all_repos = <<>>
    /\ new_repos = <<>>
    /\ idx = 0
    /\ table_rows = <<>>
    /\ processed_in_this_run = <<>>
    /\ loadResult = "none"
    /\ renderResult = "none"
    /\ saveResult = "none"
    /\ docBefore = NoFile
    /\ rowsArg = <<>>
    /\ fetched = {}
    /\ got403 = FALSE
    /\ actedAfter403 = FALSE
    /\ generated = <<>>
    /\ requested = <<>>

\* no call of parse_readme is modelled step by step in a run of main
InitMain ==
    /\ InitLocals
    /\ confMatch = [kind |-> "none", text |-> <<>>]
    /\ repo_info = [description |-> [null |-> TRUE, text |-> <<>>]]
    /\ result = <<>>

InitTable ==
    /\ InitMain
    /\ env = FreeEnv(Repos, MaxRuns, MaxPages, {"title"})
    /\ pc = "call"
    /\ docFile \in {NoFile} \cup {File(c) : c \in SeqsUpTo(DocTokens, MaxDocLen)}
    /\ docAtStart = docFile
    /\ ledgerFile = NoFile
    /\ ledgerAtStart = NoFile
    /\ recordedEarlier = {}

TableCall ==
    /\ pc = "call"
    /\ \E rows \in RowLists : UpdateReadmeTable(rows)
    /\ pc' = "returned"
    /\ UNCHANGED <<mainVars, parseVars>>

NextTable == TableCall

SpecTable == InitTable /\ [][NextTable]_vars

-----------------------------------------------------------------------------
(* The ledger: load_processed_repos and save_processed_repos *)

\* [line.strip() for line in f if line.strip()]: every line of the file holds one name
LoadLines(content) == SelectSeq(content, LAMBDA t : t # "NL")

Names(file) == Range(LoadLines(file.content))

RECURSIVE SortedNames(_)
\* sorted(set(repos)), the names ordered by Rank
SortedNames(S) ==
    IF S = {} THEN <<>>
    ELSE LET first == CHOOSE n \in S : \A m \in S : Rank(n) <= Rank(m)
         IN  <<first>> \o SortedNames(S \ {first})

\* "\n".join(sorted(set(repos)))
LedgerText(repos) ==
    LET unique_repos == SortedNames(Range(repos))
    IN  Join([i \in 1..Len(unique_repos) |-> <<unique_repos[i]>>], <<"NL">>)

\* load_processed_repos: [] when the file is absent or cannot be read
LoadProcessedRepos ==
    \/ /\ ~ledgerFile.exists
       /\ processed_repos' = <<>>
       /\ loadResult' = "absent"
    \/ /\ ledgerFile.exists
       /\ processed_repos' = LoadLines(ledgerFile.content)
       /\ loadResult' = "ok"
    \/ /\ env.faults
       /\ ledgerFile.exists                          \* open or read raises
       /\ processed_repos' = <<>>
       /\ loadResult' = "error"

\* save_processed_repos(repos): an exception anywhere is caught and logged
SaveProcessedRepos(repos) ==
    \/ /\ ledgerFile' = File(LedgerText(repos))
       /\ saveResult' = "ok"
    \/ /\ env.faults
       /\ ledgerFile' = ledgerFile                   \* open(.., "w") raises
       /\ saveResult' = "failed"
    \/ /\ env.faults
       /\ \E part \in Truncations(LedgerText(repos)) :
             ledgerFile' = File(part)                \* f.write or close raises
       /\ saveResult' = "failed"

-----------------------------------------------------------------------------
(* Rows *)

\* what parse_readme finds for the year: the sentinel or four digits
Years == {"not provided", "2023", "2024"}

\* TABLE_TEMPLATE.format(...): the text of a row holds the title, then the year
\* field, then the name
TableRow(repo, title, year) == <<title, year, repo>>

RepoOf(row) == row[Len(row)]

\* int(tok) for a token of four digits, -1 for any other token
FourDigits(tok) ==
    CASE tok = "2023" -> 2023
      [] tok = "2024" -> 2024
      [] tok = "1999" -> 1999
      [] OTHER -> -1

\* re.search(r"\d{4}", x): the position of the first four-digit token, 0 for None
SearchDigits(row) ==
    LET hits == {i \in 1..Len(row) : FourDigits(row[i]) # -1}
    IN  IF hits = {} THEN 0 ELSE CHOOSE i \in hits : \A j \in hits : i <= j

SortKey(row) == FourDigits(row[SearchDigits(row)])

RECURSIVE InsertRowAscending(_, _)
\* an insertion that orders the keys upwards
InsertRowAscending(sorted, row) ==
    IF sorted = <<>> THEN <<row>>
    ELSE IF SortKey(Head(sorted)) <= SortKey(row)
         THEN <<Head(sorted)>> \o InsertRowAscending(Tail(sorted), row)
         ELSE <<row>> \o sorted

RECURSIVE InsertRow(_, _)
\* puts row after every row whose key is not smaller: a stable descending order
InsertRow(sorted, row) ==
    IF sorted = <<>> THEN <<row>>
    ELSE IF SortKey(Head(sorted)) >= SortKey(row)
         THEN <<Head(sorted)>> \o InsertRow(Tail(sorted), row)
         ELSE <<row>> \o sorted

RECURSIVE SortRows(_)
\* rows.sort(key=..., reverse=True)
SortRows(rows) ==
    IF rows = <<>> THEN <<>>
    ELSE InsertRow(SortRows(SubSeq(rows, 1, Len(rows) - 1)), rows[Len(rows)])

-----------------------------------------------------------------------------
(* parse_readme: the venue field.  Text is a sequence of characters here.    *)

TARGET_CONF == << <<"i", "c", "r", "a">>, <<"i", "r", "o", "s">>,
                  <<"r", "a", "l">>, <<"t", "r", "o">> >>

\* the three sentinel texts, each written as one character
NOT_PROVIDED == <<"not provided">>
PARSE_ERROR == <<"parse error">>
OTHER_CONF == <<"other venue">>

LowerCase == [I |-> "i", C |-> "c", R |-> "r", A |-> "a", O |-> "o", S |-> "s",
              L |-> "l", T |-> "t", X |-> "x"]
UpperCase == [i |-> "I", c |-> "C", r |-> "R", a |-> "A", o |-> "O", s |-> "S",
              l |-> "L", t |-> "T", x |-> "X"]

\* str.lower() and str.upper()
Lower(text) == [i \in 1..Len(text) |-> IF text[i] \in DOMAIN LowerCase THEN LowerCase[text[i]]
                                                                       ELSE text[i]]
Upper(text) == [i \in 1..Len(text) |-> IF text[i] \in DOMAIN UpperCase THEN UpperCase[text[i]]
                                                                       ELSE text[i]]

RECURSIVE Strip(_)
\* str.strip()
Strip(text) ==
    IF text = <<>> THEN <<>>
    ELSE IF Head(text) = " " THEN Strip(Tail(text))
    ELSE IF text[Len(text)] = " " THEN Strip(SubSeq(text, 1, Len(text) - 1))
    ELSE text

\* result["conf"] after the loop over the patterns
ConfField(m) ==
    CASE m.kind = "match" -> Strip(m.text)
      [] m.kind = "none" -> NOT_PROVIDED
      [] m.kind = "raise" -> PARSE_ERROR

\* a loop that keeps the last abbreviation found
LastConf(desc_lower) ==
    LET hits == {k \in 1..Len(TARGET_CONF) : Find(desc_lower, TARGET_CONF[k], 0) # -1}
    IN  IF hits = {} THEN OTHER_CONF
        ELSE Upper(TARGET_CONF[CHOOSE k \in hits : \A h \in hits : h <= k])

\* for conf in TARGET_CONF: if conf in desc_lower: ...; break / else: ...
FirstConf(desc_lower) ==
    LET hits == {k \in 1..Len(TARGET_CONF) : Find(desc_lower, TARGET_CONF[k], 0) # -1}
    IN  IF hits = {} THEN OTHER_CONF
        ELSE Upper(TARGET_CONF[CHOOSE k \in hits : \A h \in hits : k <= h])

\* parse_readme(readme_content, repo_info)["conf"]
ParsedConf(m, info) ==
    IF ConfField(m) \in {NOT_PROVIDED, PARSE_ERROR}
    THEN FirstConf(Lower(IF info.description.null THEN <<>> ELSE info.description.text))
    ELSE ConfField(m)

\* the pieces descriptions are put together from
Chunks == { <<"i", "c">>, <<"r", "a">>, <<"l">>, <<"t", "r", "o">>, <<"i", "r", "o", "s">>,
            <<"I", "C">>, <<"R", "a">>, <<"x">>, <<" ">> }

RECURSIVE Concat(_)
Concat(parts) == IF parts = <<>> THEN <<>> ELSE Head(parts) \o Concat(Tail(parts))

Descriptions ==
    {[null |-> TRUE, text |-> <<>>]}
        \cup {[null |-> FALSE, text |-> Concat(parts)] : parts \in SeqsUpTo(Chunks, MaxChunks)}

\* what re.search can come to for the venue pattern: no match, an exception,
\* or a match with the text of the section
ConfMatches ==
    {[kind |-> "none", text |-> <<>>], [kind |-> "raise", text |-> <<>>]}
        \cup {[kind |-> "match", text |-> t] :
                 t \in {<<"I", "C", "R", "A">>, <<"x", " ">>, NOT_PROVIDED, PARSE_ERROR}}

InitParse ==
    /\ InitLocals
    /\ pc = "parse"
    /\ env = FreeEnv(Repos, MaxRuns, MaxPages, {"title"})
    /\ docFile = NoFile
    /\ ledgerFile = NoFile
    /\ ledgerAtStart = NoFile
    /\ docAtStart = NoFile
    /\ recordedEarlier = {}
    /\ confMatch \in ConfMatches
    /\ repo_info \in {[description |-> d] : d \in Descriptions}
    /\ result = <<>>

ParseReadme ==
    /\ pc = "parse"
    /\ result' = ParsedConf(confMatch, repo_info)
    /\ pc' = "parsed"
    /\ UNCHANGED <<docFile, renderResult, docBefore, rowsArg, confMatch, repo_info, mainVars>>

NextParse == ParseReadme

SpecParse == InitParse /\ [][NextParse]_vars

-----------------------------------------------------------------------------
(* main *)

\* a filter that lets every repository through
KeepsAll(repo, processed) == TRUE

\* the filter of main: a repository already in the loaded ledger is skipped.
\* ONLY_NEW_UPDATED is False, so the recency test never runs.
Keeps(repo, processed) == ~(SKIP_EXISTED /\ repo \in Range(processed))

\* persisting whatever update_readme_table returned
PersistsAlways(rendered) == TRUE

\* if update_readme_table(table_rows): ...
Persists(rendered) == rendered = "ok"

\* a slice without the limit
WorkingSetWhole(repos) == repos

\* new_repos[:50]
WorkingSet(repos) == Slice(repos, 0, IF Len(repos) < PROCESS_LIMIT THEN Len(repos) ELSE PROCESS_LIMIT)

\* going on to the document whether or not a row was generated
HasRowsAlways(rows) == TRUE

\* if table_rows: ...
HasRows(rows) == rows # <<>>

Return(how) ==
    /\ pc' = "idle"
    /\ exit' = how

\* main, step 1: load_processed_repos
StartMain ==
    /\ pc = "idle"
    /\ env.fixed \/ run < env.maxRuns
    /\ run' = IF run < env.maxRuns THEN run + 1 ELSE run
    /\ LoadProcessedRepos
    /\ ledgerAtStart' = ledgerFile
    /\ docAtStart' = docFile
    /\ recordedEarlier' = recordedEarlier \cup Names(ledgerFile)
    /\ pc' = "search"
    /\ exit' = "none"
    /\ page' = 1
    /\ all_repos' = <<>>
    /\ new_repos' = <<>>
    /\ idx' = 0
    /\ table_rows' = <<>>
    /\ processed_in_this_run' = <<>>
    /\ renderResult' = "none"
    /\ saveResult' = "none"
    /\ docBefore' = NoFile
    /\ rowsArg' = <<>>
    /\ fetched' = {}
    /\ got403' = FALSE
    /\ actedAfter403' = FALSE
    /\ generated' = <<>>
    /\ requested' = <<>>
    /\ UNCHANGED <<docFile, ledgerFile, env, parseVars>>

\* the item lists of at most n repositories, none of them twice
ItemLists(repos, n) ==
    {items \in UNION {[1..k -> repos] : k \in 1..n} :
        \A i, j \in DOMAIN items : items[i] = items[j] => i = j}

\* what github_api_request can return for page p of the search: None, a body
\* without items, or a body with items.  The results run out: the last page the
\* API has is never full.
Responses(p) ==
    IF env.fixed
    THEN {[data |-> "items", items |-> IF p <= Len(env.pages) THEN env.pages[p] ELSE <<>>]}
    ELSE {[data |-> "null", items |-> <<>>], [data |-> "items", items |-> <<>>]}
         \cup {[data |-> "items", items |-> items] :
                 items \in ItemLists(env.repos, IF p < env.maxPages THEN PER_PAGE
                                                                     ELSE PER_PAGE - 1)}

\* a loop that goes on after a page that is one item short of full
LastPageOffByOne(items) == Len(items) < PER_PAGE - 1

\* if len(items) < per_page: break
LastPage(items) == Len(items) < PER_PAGE

\* search_slam_repos: one turn of the page loop
SearchPage ==
    /\ pc = "search"
    /\ \/ /\ env.faults                              \* 403: github_api_request raises
          /\ got403' = TRUE
          /\ requested' = Append(requested, [page |-> page, data |-> "403", items |-> <<>>])
          /\ Return("rate limited")
          /\ UNCHANGED <<page, all_repos>>
       \/ \E resp \in Responses(page) :
             /\ requested' = Append(requested, [page |-> page, data |-> resp.data,
                                                items |-> resp.items])
             /\ IF resp.data = "null" \/ resp.items = <<>>
                THEN /\ pc' = "filter"               \* if not data or not items: break
                     /\ UNCHANGED <<page, all_repos>>
                ELSE /\ all_repos' = all_repos \o resp.items
                     /\ IF LastPage(resp.items)
                        THEN pc' = "filter" /\ page' = page
                        ELSE pc' = "search" /\ page' = page + 1
             /\ UNCHANGED <<exit, got403>>
    /\ UNCHANGED <<docFile, ledgerFile, run, processed_repos, new_repos, idx,
                   table_rows, processed_in_this_run, loadResult, renderResult,
                   saveResult, docBefore, rowsArg, ledgerAtStart, recordedEarlier,
                   fetched, actedAfter403, docAtStart, generated, env, parseVars>>

\* main, steps 2 and 3: the early return on an empty search, and the filter
Filter ==
    /\ pc = "filter"
    /\ LET kept == SelectSeq(all_repos, LAMBDA r : Keeps(r, processed_repos))
       IN  /\ new_repos' = IF all_repos = <<>> THEN <<>> ELSE kept
           /\ IF all_repos = <<>> \/ kept = <<>>
              THEN Return("returned")
              ELSE pc' = "process" /\ exit' = exit
    /\ UNCHANGED <<docFile, ledgerFile, run, processed_repos, page, all_repos, idx,
                   table_rows, processed_in_this_run, loadResult, renderResult,
                   saveResult, docBefore, rowsArg, ledgerAtStart, recordedEarlier,
                   fetched, got403, actedAfter403, docAtStart, generated, requested,
                   env, parseVars>>

\* what the detail and README requests and parse_readme can come to for one
\* repository: a 403, no detail, or the title and year fields of a row
Answers(repo) ==
    IF env.fixed
    THEN {env.outcome[repo]}
    ELSE {[kind |-> "403", title |-> "", year |-> ""],
          [kind |-> "none", title |-> "", year |-> ""]}
         \cup {[kind |-> "row", title |-> t, year |-> y] : t \in env.titles, y \in Years}

\* main, step 4: one turn of the loop over new_repos[:50].  A 403 raised by
\* github_api_request inside the try block is caught by the loop's own except clause.
ProcessRepo ==
    /\ pc = "process"
    /\ LET work == WorkingSet(new_repos)
           repo == work[idx + 1]
       IN  /\ fetched' = fetched \cup {repo}
           /\ actedAfter403' = (actedAfter403 \/ got403)
           /\ \E ans \in Answers(repo) :
                 /\ got403' = (got403 \/ ans.kind = "403")
                 /\ IF ans.kind = "row"
                    THEN /\ table_rows' = Append(table_rows, TableRow(repo, ans.title, ans.year))
                         /\ generated' = Append(generated, TableRow(repo, ans.title, ans.year))
                         /\ processed_in_this_run' = Append(processed_in_this_run, repo)
                    ELSE UNCHANGED <<table_rows, generated, processed_in_this_run>>
           /\ idx' = idx + 1
           /\ IF idx + 1 < Len(work)
              THEN pc' = "process" /\ exit' = exit
              ELSE IF HasRows(table_rows')
                   THEN pc' = "render" /\ exit' = exit
                   ELSE Return("returned")
    /\ UNCHANGED <<docFile, ledgerFile, run, processed_repos, page, all_repos,
                   new_repos, loadResult, renderResult, saveResult, docBefore,
                   rowsArg, ledgerAtStart, recordedEarlier, docAtStart, requested, env, parseVars>>

\* main, step 5: the sort of the rows and update_readme_table.  The sort key
\* calls .group() on the result of re.search, which is None for a row without
\* four digits; that AttributeError is outside every try block.
Render ==
    /\ pc = "render"
    /\ IF \E i \in 1..Len(table_rows) : SearchDigits(table_rows[i]) = 0
       THEN /\ Return("AttributeError")
            /\ UNCHANGED <<docFile, table_rows, renderResult, docBefore, rowsArg,
                           actedAfter403>>
       ELSE /\ table_rows' = SortRows(table_rows)
            /\ UpdateReadmeTable(SortRows(table_rows))
            /\ actedAfter403' = (actedAfter403 \/ (got403 /\ docFile' # docFile))
            /\ IF Persists(renderResult')
               THEN pc' = "persist" /\ exit' = exit
               ELSE Return("returned")
    /\ UNCHANGED <<ledgerFile, run, processed_repos, page, all_repos, new_repos, idx,
                   processed_in_this_run, loadResult, saveResult, ledgerAtStart,
                   recordedEarlier, fetched, got403, docAtStart, generated, requested,
                   env, parseVars>>

\* main, step 5: save_processed_repos(processed_repos + processed_in_this_run)
Persist ==
    /\ pc = "persist"
    /\ SaveProcessedRepos(processed_repos \o processed_in_this_run)
    /\ actedAfter403' = (actedAfter403 \/ (got403 /\ ledgerFile' # ledgerFile))
    /\ Return("returned")
    /\ UNCHANGED <<docFile, run, processed_repos, page, all_repos, new_repos, idx,
                   table_rows, processed_in_this_run, loadResult, renderResult,
                   docBefore, rowsArg, ledgerAtStart, recordedEarlier, fetched, got403,
                   docAtStart, generated, requested, env, parseVars>>

OldTable == <<"x", "NL">> \o TABLE_HEADER \o <<"NL", "old row", "NL", "##", "x">>

\* the files the script can find when it starts
InitFiles(repos) ==
    /\ docFile \in {NoFile, File(<<"x">>), File(OldTable)}
    /\ ledgerFile \in {NoFile} \cup {File(LedgerText(SortedNames(S))) : S \in SUBSET repos}
    /\ ledgerAtStart = ledgerFile
    /\ docAtStart = docFile
    /\ recordedEarlier = Names(ledgerFile)

Init ==
    /\ InitMain
    /\ pc = "idle"
    /\ env = FreeEnv(Repos, MaxRuns, MaxPages, {"title"})
    /\ InitFiles(Repos)

Next ==
    \/ StartMain
    \/ SearchPage
    \/ Filter
    \/ ProcessRepo
    \/ Render
    \/ Persist

Spec == Init /\ [][Next]_vars

-----------------------------------------------------------------------------
(* One run of main with more repositories than the limit of the loop, and    *)
(* with titles that may hold a number.                                       *)

InitWide ==
    /\ InitMain
    /\ pc = "idle"
    /\ env = FreeEnv(WideRepos, 1, MaxPages, {"title", "1999"})
    /\ InitFiles(WideRepos)

SpecWide == InitWide /\ [][Next]_vars

-----------------------------------------------------------------------------
(* main run again and again in a fixed world: the search returns the same    *)
(* pages in every run, each repository gets the same answer in every run, no *)
(* request is answered 403 and no file operation fails.  The script is       *)
(* sequential code, and the scheduler starts it again after every run, so a  *)
(* step that can be taken is taken.                                          *)

\* the pages of a fixed search result: every page but the last is full
FixedPages ==
    {pages \in SeqsUpTo(ItemLists(WideRepos, PER_PAGE), MaxPages) :
        \A i \in 1..(Len(pages) - 1) : Len(pages[i]) = PER_PAGE}

\* the answer each repository gets: no detail, or the fields of its row
FixedOutcomes ==
    [WideRepos -> {[kind |-> "none", title |-> "", year |-> ""]}
                     \cup {[kind |-> "row", title |-> "title", year |-> y] : y \in Years}]

InitFixed ==
    /\ InitMain
    /\ pc = "idle"
    /\ env \in {FixedEnv(WideRepos, MaxRuns, pages, outcome) :
                  pages \in FixedPages, outcome \in FixedOutcomes}
    /\ docFile = NoFile
    /\ ledgerFile = NoFile
    /\ ledgerAtStart = NoFile
    /\ docAtStart = NoFile
    /\ recordedEarlier = {}

SpecFixed == InitFixed /\ [][Next]_vars /\ WF_vars(Next)

-----------------------------------------------------------------------------
(* search_slam_repos alone, on an API with one page more.  The loop is       *)
(* sequential code and every request returns, so a turn that can be taken    *)
(* is taken.                                                                 *)

InitSearch ==
    /\ InitMain
    /\ pc = "search"
    /\ env = FreeEnv(WideRepos, 1, MaxPages + 1, {"title"})
    /\ docFile = NoFile
    /\ ledgerFile = NoFile
    /\ ledgerAtStart = NoFile
    /\ docAtStart = NoFile
    /\ recordedEarlier = {}

NextSearch == SearchPage

SpecSearch == InitSearch /\ [][NextSearch]_vars /\ WF_vars(SearchPage)

-----------------------------------------------------------------------------
(* Properties of update_readme_table *)

Occurrences(s, pat) ==
    {i \in 0..(Len(s) - Len(pat)) : SubSeq(s, i + 1, i + Len(pat)) = pat}

Least(S) == CHOOSE i \in S : \A j \in S : i <= j

HasHeader(s) == Occurrences(s, TABLE_HEADER) # {}

\* 0-based position of the first occurrence of the header
HeaderAt(s) == Least(Occurrences(s, TABLE_HEADER))

\* 0-based position of the next "\n## " after the header, or the end of the text
BoundaryAt(s) ==
    LET after == {j \in Occurrences(s, <<"NL", "##">>) : j >= HeaderAt(s) + Len(TABLE_HEADER)}
    IN  IF after = {} THEN Len(s) ELSE Least(after)

Prefix(s, n) == SubSeq(s, 1, n)
Suffix(s, n) == SubSeq(s, Len(s) - n + 1, Len(s))
IsPrefix(p, s) == Len(p) <= Len(s) /\ Prefix(s, Len(p)) = p
IsSuffix(p, s) == Len(p) <= Len(s) /\ Suffix(s, Len(p)) = p

Before(s) == Prefix(s, HeaderAt(s))
After(s) == Suffix(s, Len(s) - BoundaryAt(s))

Rendered == renderResult = "ok"
OldDoc == docBefore.content
NewDoc == docFile.content

\* the new text is the old text with one region inserted or replaced at position k
KeptAround(old, new, k, m) ==
    /\ IsPrefix(Prefix(old, k), new)
    /\ IsSuffix(Suffix(old, m), new)
    /\ Len(new) >= k + m

C8_ExactlyOneHeader ==
    (Rendered /\ Cardinality(Occurrences(OldDoc, TABLE_HEADER)) <= 1) =>
        /\ Cardinality(Occurrences(NewDoc, TABLE_HEADER)) = 1
        /\ LET table == TABLE_HEADER \o <<"NL">> \o Join(rowsArg, <<"NL">>)
           IN  SubSeq(NewDoc, HeaderAt(NewDoc) + 1, HeaderAt(NewDoc) + Len(table)) = table

\* C10: when update_readme_table returns failure, README.md holds exactly the
\* content it had before the call.
C10_FailureLeavesDocument ==
    renderResult = "failed" => docFile.content = docBefore.content

-----------------------------------------------------------------------------
(* Properties of main *)

Done == pc = "idle" /\ run > 0

Added == Names(ledgerFile) \ Names(ledgerAtStart)

Contains(s, pat) == Occurrences(s, pat) # {}

\* C1: once an API request of the run was answered 403, no further repository
\* is processed and neither README.md nor the ledger file is written in that run.
C1_AbortsOn403 == ~actedAfter403

\* C2: the names in the ledger file at the end of a run include every name the
\* file held when the run began.
C2_LedgerNeverShrinks == Done => Names(ledgerAtStart) \subseteq Names(ledgerFile)

\* C3: the ledger file is not written when update_readme_table returned failure,
\* and every name a run adds to the ledger file has a row that this run wrote to
\* README.md.
C3_LedgerOnlyAfterDocument ==
    /\ renderResult # "ok" => ledgerFile = ledgerAtStart
    /\ \A name \in Added :
          \E i \in 1..Len(rowsArg) :
             /\ RepoOf(rowsArg[i]) = name
             /\ renderResult = "ok"
             /\ Contains(docFile.content, rowsArg[i])

C3_Witness ==
    /\ Done
    /\ saveResult = "ok"
    /\ Added # {}
    /\ Names(ledgerAtStart) # {}
    /\ Len(rowsArg) = 2

\* C4: a run in which no API request was answered 403 ends with main returning
\* normally.
C4_OnlyRateLimitEscapes == (Done /\ ~got403) => exit = "returned"

\* C5 as stated: a name recorded in the ledger file by an earlier run is never
\* fetched and gets no row in a later run.
C5_RecordedNeverProcessed ==
    /\ fetched \cap recordedEarlier = {}
    /\ \A i \in 1..Len(table_rows) : RepoOf(table_rows[i]) \notin recordedEarlier

\* C5 amended: a name that load_processed_repos read from the ledger file at the
\* start of a run is never fetched and gets no row in that run.
C5_LoadedNeverProcessed ==
    loadResult = "ok" =>
        /\ fetched \cap Names(ledgerAtStart) = {}
        /\ \A i \in 1..Len(table_rows) : RepoOf(table_rows[i]) \notin Names(ledgerAtStart)

C5_Witness ==
    /\ run = 2
    /\ loadResult = "ok"
    /\ \E name \in Names(ledgerAtStart) :
          /\ name \in Range(all_repos)
          /\ name \notin recordedEarlier \ Names(ledgerAtStart)
    /\ fetched # {}
    /\ Done

\* C9: after a save_processed_repos that failed, the ledger file still holds
\* every name it held before the save began.
C9_FailedSaveKeepsEntries ==
    saveResult = "failed" => Names(ledgerAtStart) \subseteq Names(ledgerFile)

-----------------------------------------------------------------------------
(* Properties of a run: the table, the ledger and the limit *)

RECURSIVE SplitLines(_)
\* the lines of a text
SplitLines(s) ==
    IF "NL" \notin Range(s) THEN <<s>>
    ELSE LET k == Least({i \in 1..Len(s) : s[i] = "NL"})
         IN  <<SubSeq(s, 1, k - 1)>> \o SplitLines(SubSeq(s, k + 1, Len(s)))

\* the managed table of a document that holds the header: the lines between
\* the header and the next "\n## " or the end of the document
ManagedText(s) == SubSeq(s, HeaderAt(s) + Len(TABLE_HEADER) + 2, BoundaryAt(s))

ManagedRows(s) == SplitLines(ManagedText(s))

\* C11: after a run that rendered the table, no two rows of the managed table
\* of README.md name the same repository.
C11_OneRowPerRepository ==
    (Done /\ Rendered) =>
        \A i, j \in 1..Len(ManagedRows(NewDoc)) :
            RepoOf(ManagedRows(NewDoc)[i]) = RepoOf(ManagedRows(NewDoc)[j]) => i = j

\* the repositories of the rows generated in this run
RowRepos == {RepoOf(generated[i]) : i \in 1..Len(generated)}

\* C12: in a run that loaded the ledger and saved it, the names added to the
\* ledger file are exactly the repositories a row was generated for, and they
\* are as many as the rows rendered.
C12_LedgerGrowsByRows ==
    (Done /\ loadResult # "error" /\ saveResult = "ok") =>
        /\ Added = RowRepos
        /\ Cardinality(Added) = Len(rowsArg)

Min(a, b) == IF a < b THEN a ELSE b

\* the repositories at the first PROCESS_LIMIT places of the filtered list
WithinLimit == {new_repos[i] : i \in 1..Min(PROCESS_LIMIT, Len(new_repos))}

\* C13: at every moment of a run the loop has fetched exactly the first idx
\* repositories of the filtered list and idx is at most the limit; at most that
\* many rows are generated and at most that many names are added to the ledger;
\* a repository that the filtered list holds only beyond the limit is not added.
C13_AtMostLimitProcessed ==
    /\ idx <= PROCESS_LIMIT
    /\ fetched = {new_repos[i] : i \in 1..idx}
    /\ Len(generated) <= PROCESS_LIMIT
    /\ Cardinality(Added) <= PROCESS_LIMIT
    /\ \A i \in 1..Len(new_repos) : new_repos[i] \notin WithinLimit => new_repos[i] \notin Added

C13_Witness ==
    /\ Done
    /\ saveResult = "ok"
    /\ Len(new_repos) > PROCESS_LIMIT
    /\ new_repos[PROCESS_LIMIT + 1] \notin WithinLimit
    /\ Cardinality(Added) = PROCESS_LIMIT

\* what load_processed_repos returned at the start of the run
Loaded == IF loadResult = "ok" THEN LoadLines(ledgerAtStart.content) ELSE <<>>

\* C15: a finished run in which the search returned nothing, or the filter
\* kept nothing, or no row was generated, has written neither README.md nor
\* the ledger file; and once the filter has run, the ledger file and the list
\* loaded from it are what they were before it.
C15_EarlyExitsWriteNothing ==
    /\ (Done /\ (all_repos = <<>> \/ new_repos = <<>> \/ generated = <<>>)) =>
          /\ docFile = docAtStart
          /\ ledgerFile = ledgerAtStart
          /\ renderResult = "none"
          /\ saveResult = "none"
    /\ pc \in {"process", "render"} =>
          /\ ledgerFile = ledgerAtStart
          /\ processed_repos = Loaded

C15_Witness ==
    /\ Done
    /\ exit = "returned"
    /\ new_repos # <<>>
    /\ generated = <<>>
    /\ docAtStart.exists
    /\ Names(ledgerAtStart) # {}

\* how often a row occurs in a list of rows
Count(rows, row) == Cardinality({i \in 1..Len(rows) : rows[i] = row})

IsPermutation(r1, r2) ==
    /\ Len(r1) = Len(r2)
    /\ \A row \in Range(r1) \cup Range(r2) : Count(r1, row) = Count(r2, row)

\* the first number of four digits in the text of a row that has one
FirstNumber(row) == FourDigits(row[Least({i \in 1..Len(row) : FourDigits(row[i]) # -1})])

HasRowOf(doc, repo) ==
    /\ HasHeader(doc)
    /\ \E i \in 1..Len(ManagedRows(doc)) :
          ManagedRows(doc)[i] # <<>> /\ RepoOf(ManagedRows(doc)[i]) = repo

\* C19: after a render that succeeded, the rows of the managed table of
\* README.md are the rows handed over in this run, which are the rows generated
\* in this run in some order; no row of an earlier run is left.
C19_TableHoldsOnlyThisRun ==
    Rendered =>
        /\ HasHeader(NewDoc)
        /\ ManagedText(NewDoc) = Join(rowsArg, <<"NL">>)
        /\ IsPermutation(rowsArg, generated)

\* after two runs that rendered, a repository of the first run is in the ledger
\* file and has lost its row
C19_Witness ==
    /\ Done
    /\ run = 2
    /\ Rendered
    /\ saveResult = "ok"
    /\ \E repo \in Names(ledgerFile) :
          /\ HasRowOf(docAtStart.content, repo)
          /\ ~HasRowOf(NewDoc, repo)

-----------------------------------------------------------------------------
(* Progress over repeated runs *)

\* the search result of the fixed world holds the repository
Discovered(repo) == \E i \in 1..Len(env.pages) : repo \in Range(env.pages[i])

\* the detail and README requests for the repository succeed
FetchesSucceed(repo) == env.outcome[repo].kind = "row"

\* the repository is in the ledger file and has a row in README.md
RecordedWithRow(repo) == repo \in Names(ledgerFile) /\ HasRowOf(docFile.content, repo)

\* C18: when main is run again and again in a fixed world without 403 answers,
\* every repository of the search result whose own requests succeed is at some
\* time in the ledger file with a row in README.md.
C18_EveryGoodRepoRecorded ==
    \A repo \in WideRepos :
        (Discovered(repo) /\ FetchesSucceed(repo)) => <>RecordedWithRow(repo)

-----------------------------------------------------------------------------
(* Properties of parse_readme *)

\* the description in lower case, an absent one counted as empty
DescLower == Lower(IF repo_info.description.null THEN <<>> ELSE repo_info.description.text)

Occurs(k) == Contains(DescLower, TARGET_CONF[k])

\* the venue is inferred from the description
VenueFromDescription ==
    /\ \A k \in 1..Len(TARGET_CONF) :
          (Occurs(k) /\ \A h \in 1..(k - 1) : ~Occurs(h)) => result = Upper(TARGET_CONF[k])
    /\ (\A k \in 1..Len(TARGET_CONF) : ~Occurs(k)) => result = OTHER_CONF

\* the venue is the text of the section, whatever the description
VenueFromSection == result = Strip(confMatch.text)

SectionMatched == confMatch.kind = "match"

\* C17 as stated: with no venue section matched the venue is inferred from the
\* description; with a venue section matched the venue is the text of the
\* section and the description plays no part.
C17_FallbackOnlyWithoutSection ==
    pc = "parsed" => IF SectionMatched THEN VenueFromSection ELSE VenueFromDescription

\* C17 amended: the venue is the text of the matched section unless that text
\* is one of the sentinels "not provided" and "parse error"; with no section
\* matched, or with a sentinel as the text of the section, the venue is
\* inferred from the description.
C17_FallbackOnSentinel ==
    pc = "parsed" =>
        IF SectionMatched /\ Strip(confMatch.text) \notin {NOT_PROVIDED, PARSE_ERROR}
        THEN VenueFromSection
        ELSE VenueFromDescription

C17_Witness ==
    /\ pc = "parsed"
    /\ SectionMatched
    /\ Strip(confMatch.text) = NOT_PROVIDED
    /\ repo_info.description.text = <<"I", "C", "R", "a", "l">>
    /\ result = <<"I", "C", "R", "A">>

-----------------------------------------------------------------------------
(* Properties of search_slam_repos *)

RECURSIVE Flatten(_)
Flatten(lists) == IF lists = <<>> THEN <<>> ELSE Head(lists) \o Flatten(Tail(lists))

\* a page at which the loop has to stop: absent, empty, or not full
StopPage(r) == r.data = "null" \/ (r.data = "items" /\ Len(r.items) < PER_PAGE)

FullPage(r) == r.data = "items" /\ Len(r.items) = PER_PAGE

Searching == pc = "search"
SearchReturned == pc = "filter"

PagesInOrder ==
    /\ \A i \in 1..Len(requested) : requested[i].page = i
    /\ \A i \in 1..(Len(requested) - 1) : FullPage(requested[i])
    /\ Searching => \A i \in 1..Len(requested) : FullPage(requested[i])
    /\ SearchReturned =>
          /\ requested # <<>>
          /\ StopPage(requested[Len(requested)])
          /\ all_repos = Flatten([i \in 1..Len(requested) |-> requested[i].items])

\* C14: the pages requested are 1, 2, 3, ... in this order; every page before
\* the last one requested was full, so no page is requested after a page that
\* is absent, empty or not full; when the search returns, the last page
\* requested is such a page and the result is the concatenation of the items
\* of the pages requested; and the search does come to an end.
C14_PagesInOrderUntilShort == []PagesInOrder /\ <>(~Searching)

C14_Witness ==
    /\ SearchReturned
    /\ Len(requested) = MaxPages + 1
    /\ requested[Len(requested)].items # <<>>

====
